---- MODULE Spec2Model ----
(***************************************************************************)
(* FB-Trie (src/fbtrie.py): a character trie, the bounded Levenshtein      *)
(* walk over it (Trie.fuzzy / Trie.fuzzy_), prefix mode (Trie.traverse)    *)
(* and the forward/backward two-pass walk (FBTrie.fuzzy / trie_fuzzy_).    *)
(*                                                                         *)
(* The alphabet has two letters, 1 and 2; the terminator "\0" is 0, which  *)
(* sorts below every letter as it does in Python.  A string is a           *)
(* sequence of letters.  A trie    (nested dicts) is a function from the   *)
(* path of a node to the sequence of its keys in insertion order, which is *)
(* the iteration order of a Python dict.                                   *)
(***************************************************************************)
EXTENDS Integers, Sequences, FiniteSets, TLC

\* ---- bounds of the model
MaxChars == 2
MaxQueryLen == 2
MaxK == 2
MaxInserts == 2

\* ---- characters and strings
Term == 0
Sym == {1, 2}

StringsUpTo(m) == UNION {[1..l -> Sym] : l \in 0..m}
Words == StringsUpTo(MaxChars)
Queries == StringsUpTo(MaxQueryLen)

Range(s) == {s[x] : x \in DOMAIN s}

\* word[::-1]
Reverse(s) == [x \in 1..Len(s) |-> s[Len(s) + 1 - x]]

\* min(...) of a non-empty set of integers
Min(S) == CHOOSE x \in S : \A y \in S : x <= y

\* sorted(node.items(), key=lambda x: x[0]): the keys in ascending order
RECURSIVE SortedSet(_)
SortedSet(S) == IF S = {} THEN <<>> ELSE <<Min(S)>> \o SortedSet(S \ {Min(S)})

Sorted(keys) == SortedSet(Range(keys))

\* ---- Trie.__init__ and Trie.insert
EmptyRoot == [p \in {<<>>} |-> <<>>]

RECURSIVE insert_loop(_, _, _)
insert_loop(root, w, ix) ==
    IF ix > Len(w) THEN root
    ELSE LET node == SubSeq(w, 1, ix - 1)
             c == w[ix]
             child == Append(node, c)
             grown == IF c \in Range(root[node]) THEN root
                      ELSE [p \in DOMAIN root \cup {child} |->
                              IF p = node THEN Append(root[node], c)
                              ELSE IF p = child THEN <<>>
                              ELSE root[p]]
         IN insert_loop(grown, w, ix + 1)

insert(root, word) == insert_loop(root, Append(word, Term), 1)

\* ---- the Levenshtein table shared by one walk
\* tab = [[0] * (n + 1) for _ in range(n + k + 1)]; tab[0][j] = j
InitTab(n, k) == [r \in 0..(n + k) |-> [j \in 0..n |-> IF r = 0 THEN j ELSE 0]]

\* len(tab)
TabLen(tab) == Cardinality(DOMAIN tab)

\* Row i from row i-1 (prev) and the edge character c:
\*   tab[i][0] = i; for j in range(1, len(tab[i])): tab[i][j] = min(sub, insert, delete)
\* query[j - 1] of the source is query[j] here (sequences start at 1).
RowOfNoDelete(prev, c, query, i) ==
    LET row[j \in DOMAIN prev] ==
            IF j = 0 THEN i
            ELSE LET sub_cost == IF c # query[j] THEN 1 ELSE 0
                     sub == prev[j - 1] + sub_cost
                     ins == prev[j] + 1
                 IN Min({sub, ins})
    IN row

RowOf(prev, c, query, i) ==
    LET row[j \in DOMAIN prev] ==
            IF j = 0 THEN i
            ELSE LET sub_cost == IF c # query[j] THEN 1 ELSE 0
                     sub == prev[j - 1] + sub_cost
                     ins == prev[j] + 1
                     del == row[j - 1] + 1
                 IN Min({sub, ins, del})
    IN row

\* The table and query indices one step touches: rows and cols index tab[r][j],
\* js are the j of every query[j - 1] read.
NoAcc == [rows |-> {}, cols |-> {}, js |-> {}]

\* Python raises IndexError for an index past the end; no index of the walk is
\* negative (i starts at 1 and j at 1), so the range test is membership.
InRange(tab, query, a) ==
    /\ \A r \in a.rows : r \in DOMAIN tab
    /\ \A r \in a.rows \cap DOMAIN tab : \A j \in a.cols : j \in DOMAIN tab[r]
    /\ \A j \in a.js : j - 1 \in 0..(Len(query) - 1)

\* What computing row i touches: tab[i - 1][len(query)] for d, then the recurrence.
RowAcc(tab, i, n) ==
    IF i \in DOMAIN tab
    THEN LET last == Cardinality(DOMAIN tab[i]) - 1 IN
         [rows |-> {i - 1, i}, cols |-> {n} \cup 0..last, js |-> 1..last]
    ELSE [rows |-> {i - 1, i}, cols |-> {n, 0}, js |-> {}]

\* ---- the walk: a stack of generator frames over one table
Top(stack) == stack[Len(stack)]
Pop(stack) == SubSeq(stack, 1, Len(stack) - 1)
SetTop(stack, fr) == [stack EXCEPT ![Len(stack)] = fr]

\* A frame of Trie.fuzzy_ or FBTrie.trie_fuzzy_. at is its position: "enter"
\* before its for loop, "loop" inside it (rest: the edges still to visit, size:
\* the number of keys of the node when the loop began), "return" when only its
\* return statement is left.
Frame(node, i, sofar, subk, phase) ==
    [node |-> node, i |-> i, sofar |-> sofar, subk |-> subk, phase |-> phase,
     d |-> 0, at |-> "enter", rest |-> <<>>, size |-> 0]

\* A frame of Trie.traverse(d, node, sofar), inside its for loop over keys
TraverseFrame(d, node, sofar, keys) ==
    [node |-> node, i |-> 0, sofar |-> sofar, subk |-> 0, phase |-> 0,
     d |-> d, at |-> "traverse", rest |-> keys, size |-> Len(keys)]

\* An uncaught IndexError ends the whole generator chain.
Raise(w, a) == [w EXCEPT !.stack = <<>>, !.acc = a, !.raised = "IndexError"]

\* for c, child in node.items(): the iterator of a dict raises RuntimeError
\* ("dictionary changed size during iteration") when it is advanced after the
\* dict has gained a key. sorted(...) of FBTrie.trie_fuzzy_ iterates a copy.
DictChanged(cl, top) == ~cl.fb /\ Len(cl.root[top.node]) # top.size

RaiseRuntime(w) == [w EXCEPT !.stack = <<>>, !.acc = NoAcc, !.raised = "RuntimeError"]

\* if i >= len(tab): return
CutoffLate(i, tab) == i > TabLen(tab)

Cutoff(i, tab) == i >= TabLen(tab)

\* if c == "\0" and d <= k
AcceptAny(c, d, k) == c = Term

Accept(c, d, k) == c = Term /\ d <= k

\* if prefix and i >= len(query) + 1
PrefixDoneLate(prefix, i, query) == prefix /\ i > Len(query) + 1

PrefixDone(prefix, i, query) == prefix /\ i >= Len(query) + 1

\* k_fn = lambda i: k
k_fn(cl, i) == cl.k

\* Trie.fuzzy_ up to its for loop
fuzzy_Enter(cl, w) ==
    LET top == Top(w.stack)
        n == Len(cl.query)
        kk == k_fn(cl, top.i)
    IN IF PrefixDone(cl.prefix, top.i, cl.query)
       THEN LET a == [rows |-> {top.i - 1}, cols |-> {n}, js |-> {}] IN
            IF ~InRange(w.tab, cl.query, a) THEN Raise(w, a)
            ELSE LET d == w.tab[top.i - 1][n] IN
                 IF d <= kk
                 THEN [w EXCEPT !.acc = a,
                                !.stack = Append(SetTop(@, [top EXCEPT !.at = "return"]),
                                                 TraverseFrame(d, top.node, top.sofar,
                                                               cl.root[top.node]))]
                 ELSE [w EXCEPT !.stack = Pop(@), !.acc = a]
       ELSE IF Cutoff(top.i, w.tab)
       THEN [w EXCEPT !.stack = Pop(@), !.acc = NoAcc]
       ELSE [w EXCEPT !.stack = SetTop(@, [top EXCEPT !.at = "loop",
                                                      !.rest = cl.root[top.node],
                                                      !.size = Len(cl.root[top.node])]),
                      !.acc = NoAcc]

\* One iteration of the for loop of Trie.traverse: a terminator key yields the
\* path with the distance d, any other key recurses into the child.
traverse_Visit(cl, w) ==
    LET top == Top(w.stack)
        c == Head(top.rest)
        rest == SetTop(w.stack, [top EXCEPT !.rest = Tail(@)])
    IN IF DictChanged(cl, top) THEN RaiseRuntime(w)
       ELSE IF c = Term
       THEN [w EXCEPT !.stack = rest, !.acc = NoAcc,
                      !.out = Append(@, <<top.sofar, top.d>>)]
       ELSE [w EXCEPT !.stack = Append(rest, TraverseFrame(top.d, Append(top.node, c),
                                                           Append(top.sofar, c),
                                                           cl.root[Append(top.node, c)])),
                      !.acc = NoAcc]

\* One iteration of the for loop of Trie.fuzzy_
fuzzy_Visit(cl, w) ==
    LET top == Top(w.stack)
        i == top.i
        n == Len(cl.query)
        kk == k_fn(cl, i)
        c == Head(top.rest)
        rest == SetTop(w.stack, [top EXCEPT !.rest = Tail(@)])
        a0 == [rows |-> {i - 1}, cols |-> {n}, js |-> {}]
    IN IF DictChanged(cl, top) THEN RaiseRuntime(w)
       ELSE IF ~InRange(w.tab, cl.query, a0) THEN Raise(w, a0)
       ELSE IF Accept(c, w.tab[i - 1][n], kk)
       THEN [w EXCEPT !.stack = rest, !.acc = a0,
                      !.out = Append(@, <<top.sofar, w.tab[i - 1][n]>>)]
       ELSE LET a == RowAcc(w.tab, i, n) IN
            IF ~InRange(w.tab, cl.query, a) THEN Raise(w, a)
            ELSE LET new == Append(top.sofar, c)
                     row == RowOf(w.tab[i - 1], c, cl.query, i)
                     smallest == Min(Range(row))
                 IN [w EXCEPT !.tab = [@ EXCEPT ![i] = row], !.acc = a,
                              !.stack = IF smallest <= kk
                                        THEN Append(rest, Frame(Append(top.node, c), i + 1,
                                                                new, kk, 0))
                                        ELSE rest]

\* The frame FBTrie.trie_fuzzy_ recurses with for the row just computed, or
\* none (<<>>): the phase change first, else the budget test on the row minimum.
DescendKeepBudget(cl, top, c, row) ==
    IF top.phase = 1 /\ row[Len(cl.subq)] <= top.subk
    THEN <<Frame(Append(top.node, c), top.i + 1, Append(top.sofar, c), top.subk, 2)>>
    ELSE IF Min(Range(row)) <= top.subk
    THEN <<Frame(Append(top.node, c), top.i + 1, Append(top.sofar, c),
                 top.subk, top.phase)>>
    ELSE <<>>

Descend(cl, top, c, row) ==
    IF top.phase = 1 /\ row[Len(cl.subq)] <= top.subk
    THEN <<Frame(Append(top.node, c), top.i + 1, Append(top.sofar, c), cl.k, 2)>>
    ELSE IF Min(Range(row)) <= top.subk
    THEN <<Frame(Append(top.node, c), top.i + 1, Append(top.sofar, c),
                 top.subk, top.phase)>>
    ELSE <<>>

\* for c, child in sorted(node.items(), key=lambda x: x[0])
sorted_itemsUnsorted(keys) == keys

sorted_items(keys) == Sorted(keys)

\* FBTrie.trie_fuzzy_ up to its for loop
trie_fuzzy_Enter(cl, w) ==
    LET top == Top(w.stack) IN
    IF Cutoff(top.i, w.tab)
    THEN [w EXCEPT !.stack = Pop(@), !.acc = NoAcc]
    ELSE [w EXCEPT !.stack = SetTop(@, [top EXCEPT !.at = "loop",
                                          !.rest = sorted_items(cl.root[top.node]),
                                          !.size = Len(cl.root[top.node])]),
                   !.acc = NoAcc]

\* One iteration of the for loop of FBTrie.trie_fuzzy_
trie_fuzzy_Visit(cl, w) ==
    LET top == Top(w.stack)
        i == top.i
        n == Len(cl.query)
        c == Head(top.rest)
        rest == SetTop(w.stack, [top EXCEPT !.rest = Tail(@)])
        a0 == [rows |-> {i - 1}, cols |-> {n}, js |-> {}]
    IN IF ~InRange(w.tab, cl.query, a0) THEN Raise(w, a0)
       ELSE IF Accept(c, w.tab[i - 1][n], cl.k)
       THEN [w EXCEPT !.stack = rest, !.acc = a0,
                      !.out = Append(@, <<top.sofar, w.tab[i - 1][n]>>)]
       ELSE LET r == RowAcc(w.tab, i, n)
                a == [r EXCEPT !.cols = @ \cup {Len(cl.subq)}]
            IN IF ~InRange(w.tab, cl.query, a) THEN Raise(w, a)
               ELSE LET row == RowOf(w.tab[i - 1], c, cl.query, i) IN
                    [w EXCEPT !.tab = [@ EXCEPT ![i] = row], !.acc = a,
                              !.stack = rest \o Descend(cl, top, c, row)]

\* The generator on top returns to its caller: after its yield from (line 78),
\* or when its for loop asks the iterator for one more key and there is none.
Return(cl, w) ==
    LET top == Top(w.stack) IN
    IF top.at # "return" /\ DictChanged(cl, top) THEN RaiseRuntime(w)
    ELSE [w EXCEPT !.stack = Pop(@), !.acc = NoAcc]

WalkStep(cl, w) ==
    LET top == Top(w.stack) IN
    IF top.at = "enter"
    THEN (IF cl.fb THEN trie_fuzzy_Enter(cl, w) ELSE fuzzy_Enter(cl, w))
    ELSE IF top.at = "return" \/ top.rest = <<>> THEN Return(cl, w)
    ELSE IF top.at = "traverse" THEN traverse_Visit(cl, w)
    ELSE (IF cl.fb THEN trie_fuzzy_Visit(cl, w) ELSE fuzzy_Visit(cl, w))

RECURSIVE RunWalk(_, _)
RunWalk(cl, w) == IF w.stack = <<>> THEN w ELSE RunWalk(cl, WalkStep(cl, w))

\* ---- the public generators, run to exhaustion
StartWalk(n, k, subk, phase) ==
    [stack |-> <<Frame(<<>>, 1, <<>>, subk, phase)>>, tab |-> InitTab(n, k),
     out |-> <<>>, acc |-> NoAcc, raised |-> "none"]

TrieCall(root, query, k, prefix) ==
    [root |-> root, query |-> query, k |-> k, prefix |-> prefix,
     subq |-> <<>>, fb |-> FALSE]

\* Trie.fuzzy(query, k, None, prefix): the final state of its walk
Trie_fuzzy(root, query, k, prefix) ==
    RunWalk(TrieCall(root, query, k, prefix), StartWalk(Len(query), k, k, 0))

FBCall(root, k, subq, query) ==
    [root |-> root, query |-> query, k |-> k, prefix |-> FALSE,
     subq |-> subq, fb |-> TRUE]

\* FBTrie.trie_fuzzy(trie, subk, k, subq, query)
trie_fuzzy(root, subk, k, subq, query) ==
    RunWalk(FBCall(root, k, subq, query), StartWalk(Len(query), k, subk, 1))

\* q1, q2 = query[:n // 2], query[n // 2:]
q1(query) == SubSeq(query, 1, Len(query) \div 2)
q2(query) == SubSeq(query, (Len(query) \div 2) + 1, Len(query))

\* k1 = (k - 1) // 2 and k2 = k // 2 (floor division: k1 is -1 for k = 0)
k1(k) == (k - 1) \div 2

k2Mod(k) == k % 2

k2(k) == k \div 2

\* (word[::-1], d) for word, d in ...
Unreverse(pairs) == [x \in 1..Len(pairs) |-> <<Reverse(pairs[x][1]), pairs[x][2]>>]

\* FBTrie.fuzzy(query, k): the pairs it yields, in order
FBTrie_fuzzy(fr, br, query, k) ==
    LET fw == trie_fuzzy(fr, k1(k), k, q1(query), query) IN
    IF fw.raised # "none" THEN fw.out
    ELSE fw.out \o Unreverse(trie_fuzzy(br, k2(k), k, Reverse(q2(query)),
                                        Reverse(query)).out)

\* ---- the program as a state machine
VARIABLES
    trie,      \* Trie().root
    f, b,      \* FBTrie().f.root and FBTrie().b.root
    dict,      \* history: the set of words inserted so far
    ninserts,  \* history: the number of insert calls
    nchars,    \* history: the total length of the words inserted
    pc,        \* "idle" | "walk" | "done"
    mode,      \* "none" | "trie" (Trie.fuzzy) | "fb" (FBTrie.fuzzy)
    pass,      \* "none" | "t" | "f" (forward pass) | "b" (backward pass)
    query, k, prefix,  \* arguments of the call in progress
    stack, tab, out,   \* the walk in progress: frames, table, its raw yields
    acc,       \* history: the indices the last step touched
    raised,    \* "none", or the exception that escaped: "IndexError" | "RuntimeError"
    res,       \* the pairs the public generator has yielded so far
    gen,       \* "none" | "created" (not started) | "suspended" (at a yield) | "running"
    mutated    \* history: a word was inserted after the first yield of this call

vars == <<trie, f, b, dict, ninserts, nchars, pc, mode, pass, query, k, prefix,
          stack, tab, out, acc, raised, res, gen, mutated>>
tries == <<trie, f, b, dict, ninserts, nchars>>
args == <<mode, query, k, prefix>>

W == [stack |-> stack, tab |-> tab, out |-> out, acc |-> acc, raised |-> raised]

\* The arguments of the recursive generator that is running
Ctx ==
    IF mode = "trie" THEN TrieCall(trie, query, k, prefix)
    ELSE IF pass = "f" THEN FBCall(f, k, q1(query), query)
    ELSE FBCall(b, k, Reverse(q2(query)), Reverse(query))

\* What the public generator passes on of the walk's new yields
Publish(new) == IF pass = "b" THEN Unreverse(new) ELSE new

Load(w) ==
    /\ stack' = w.stack
    /\ tab' = w.tab
    /\ out' = w.out
    /\ acc' = w.acc
    /\ raised' = w.raised

\* One step of the running generator; a step that yields hands control to the
\* consumer, any other step is followed by the next one.
Apply(w) ==
    /\ Load(w)
    /\ res' = res \o Publish(SubSeq(w.out, Len(out) + 1, Len(w.out)))
    /\ gen' = IF Len(w.out) > Len(out) THEN "suspended" ELSE "running"
    /\ UNCHANGED mutated

Init ==
    /\ trie = EmptyRoot /\ f = EmptyRoot /\ b = EmptyRoot
    /\ dict = {} /\ ninserts = 0 /\ nchars = 0
    /\ pc = "idle" /\ mode = "none" /\ pass = "none"
    /\ query = <<>> /\ k = 0 /\ prefix = FALSE
    /\ stack = <<>> /\ tab = <<>> /\ out = <<>> /\ acc = NoAcc /\ raised = "none"
    /\ res = <<>> /\ gen = "none" /\ mutated = FALSE

\* Trie.insert(word) on the plain trie and FBTrie.insert(word) on the pair. The
\* caller can insert whenever it has control: with no call in progress, before
\* the first next() of a generator, and between two of its yields.
Insert(word) ==
    /\ pc = "idle" \/ (pc = "walk" /\ gen \in {"created", "suspended"})
    /\ ninserts < MaxInserts /\ nchars + Len(word) <= MaxChars
    /\ trie' = insert(trie, word)
    /\ f' = insert(f, word)
    /\ b' = insert(b, Reverse(word))
    /\ dict' = dict \cup {word}
    /\ ninserts' = ninserts + 1
    /\ nchars' = nchars + Len(word)
    /\ mutated' = (mutated \/ gen = "suspended")
    /\ UNCHANGED <<pc, args, pass, stack, tab, out, acc, raised, res, gen>>

\* Trie.fuzzy(q, kk, None, p) is called
StartTrie(q, kk, p) ==
    /\ pc = "idle"
    /\ pc' = "walk" /\ mode' = "trie" /\ pass' = "t"
    /\ query' = q /\ k' = kk /\ prefix' = p
    /\ Load(StartWalk(Len(q), kk, kk, 0))
    /\ res' = <<>> /\ gen' = "created" /\ mutated' = FALSE
    /\ UNCHANGED tries

\* FBTrie.fuzzy(q, kk) is called: the forward pass starts
StartFB(q, kk) ==
    /\ pc = "idle"
    /\ pc' = "walk" /\ mode' = "fb" /\ pass' = "f"
    /\ query' = q /\ k' = kk /\ prefix' = FALSE
    /\ Load(StartWalk(Len(q), kk, k1(kk), 1))
    /\ res' = <<>> /\ gen' = "created" /\ mutated' = FALSE
    /\ UNCHANGED tries

TrieEnter ==
    /\ pc = "walk" /\ mode = "trie" /\ stack # <<>> /\ Top(stack).at = "enter"
    /\ Apply(fuzzy_Enter(Ctx, W))
    /\ UNCHANGED <<tries, pc, args, pass>>

TrieVisit ==
    /\ pc = "walk" /\ mode = "trie" /\ stack # <<>>
    /\ Top(stack).at = "loop" /\ Top(stack).rest # <<>>
    /\ Apply(fuzzy_Visit(Ctx, W))
    /\ UNCHANGED <<tries, pc, args, pass>>

FBEnter ==
    /\ pc = "walk" /\ mode = "fb" /\ stack # <<>> /\ Top(stack).at = "enter"
    /\ Apply(trie_fuzzy_Enter(Ctx, W))
    /\ UNCHANGED <<tries, pc, args, pass>>

FBVisit ==
    /\ pc = "walk" /\ mode = "fb" /\ stack # <<>>
    /\ Top(stack).at = "loop" /\ Top(stack).rest # <<>>
    /\ Apply(trie_fuzzy_Visit(Ctx, W))
    /\ UNCHANGED <<tries, pc, args, pass>>

\* Prefix mode: one iteration of the for loop of the Trie.traverse on top
TraverseVisit ==
    /\ pc = "walk" /\ mode = "trie" /\ stack # <<>>
    /\ Top(stack).at = "traverse" /\ Top(stack).rest # <<>>
    /\ Apply(traverse_Visit(Ctx, W))
    /\ UNCHANGED <<tries, pc, args, pass>>

LoopEnd ==
    /\ pc = "walk" /\ stack # <<>>
    /\ Top(stack).at \in {"loop", "traverse"} /\ Top(stack).rest = <<>>
    /\ Apply(Return(Ctx, W))
    /\ UNCHANGED <<tries, pc, args, pass>>

\* Prefix mode: the yield from of Trie.fuzzy_ is over and it returns (line 78)
PrefixReturn ==
    /\ pc = "walk" /\ stack # <<>> /\ Top(stack).at = "return"
    /\ Apply(Return(Ctx, W))
    /\ UNCHANGED <<tries, pc, args, pass>>

\* The forward pass is exhausted: FBTrie.fuzzy starts the backward pass
SecondPass ==
    /\ pc = "walk" /\ mode = "fb" /\ pass = "f" /\ stack = <<>> /\ raised = "none"
    /\ pass' = "b"
    /\ Load(StartWalk(Len(query), k, k2(k), 1))
    /\ gen' = "running"
    /\ UNCHANGED <<tries, pc, args, res, mutated>>

\* The public generator is exhausted (or the error has escaped)
Finish ==
    /\ pc = "walk" /\ stack = <<>>
    /\ raised # "none" \/ pass \in {"t", "b"}
    /\ pc' = "done" /\ gen' = "none"
    /\ UNCHANGED <<tries, args, pass, stack, tab, out, acc, raised, res, mutated>>

\* The caller drops the generator
Close ==
    /\ pc = "done"
    /\ pc' = "idle" /\ mode' = "none" /\ pass' = "none"
    /\ query' = <<>> /\ k' = 0 /\ prefix' = FALSE
    /\ stack' = <<>> /\ tab' = <<>> /\ out' = <<>> /\ acc' = NoAcc
    /\ raised' = "none" /\ res' = <<>> /\ mutated' = FALSE
    /\ UNCHANGED <<tries, gen>>

Next ==
    \/ \E word \in Words : Insert(word)
    \/ \E q \in Queries, kk \in 0..MaxK, p \in BOOLEAN : StartTrie(q, kk, p)
    \/ \E q \in Queries, kk \in 0..MaxK : StartFB(q, kk)
    \/ TrieEnter
    \/ TrieVisit
    \/ FBEnter
    \/ FBVisit
    \/ TraverseVisit
    \/ LoopEnd
    \/ PrefixReturn
    \/ SecondPass
    \/ Finish
    \/ Close

Spec == Init /\ [][Next]_vars

\* ---- reference definitions for the properties
\* Levenshtein distance, by its defining recurrence on prefixes
Lev(x, y) ==
    LET dist[i \in 0..Len(x), j \in 0..Len(y)] ==
            IF i = 0 THEN j
            ELSE IF j = 0 THEN i
            ELSE Min({dist[i - 1, j - 1] + (IF x[i] = y[j] THEN 0 ELSE 1),
                      dist[i - 1, j] + 1,
                      dist[i, j - 1] + 1})
    IN dist[Len(x), Len(y)]

Prefix(s, n) == SubSeq(s, 1, n)

\* {(w, d) : w in words, d = Lev(w, q), d <= kk}
Within(words, q, kk) == {<<w, Lev(w, q)>> : w \in {v \in words : Lev(v, q) <= kk}}

\* No word occurs twice in a sequence of pairs
OncePerWord(pairs) ==
    \A x, y \in DOMAIN pairs : pairs[x][1] = pairs[y][1] => x = y

\* The pairs of a sequence, keeping for each word its least distance
DedupMin(pairs) ==
    {p \in Range(pairs) : \A o \in Range(pairs) : o[1] = p[1] => p[2] <= o[2]}

\* Tries built from a set of words in one fixed order
RECURSIVE SetToSeq(_)
SetToSeq(S) ==
    IF S = {} THEN <<>>
    ELSE LET x == CHOOSE v \in S : TRUE IN <<x>> \o SetToSeq(S \ {x})

RECURSIVE Build(_, _)
Build(ws, backward) ==
    IF ws = <<>> THEN EmptyRoot
    ELSE insert(Build(SubSeq(ws, 1, Len(ws) - 1), backward),
                IF backward THEN Reverse(ws[Len(ws)]) ELSE ws[Len(ws)])

CanonF == Build(SetToSeq(dict), FALSE)
CanonB == Build(SetToSeq(dict), TRUE)

Plain == mode = "trie" /\ ~prefix
Walking == pc = "walk" /\ stack # <<>>

\* C1: Trie.fuzzy(query, k) yields exactly the dictionary words within
\* Levenshtein distance k of the query, each with its distance.
C1_TrieFuzzyExact ==
    (pc = "done" /\ Plain /\ ~mutated) => Range(res) = Within(dict, query, k)

\* C2: fuzzy(query, 0), of Trie and of FBTrie, yields exactly {(query, 0)} when
\* the query was inserted and nothing otherwise.
C2_ExactMatchAtZero ==
    (pc = "done" /\ k = 0 /\ (Plain \/ mode = "fb") /\ ~mutated)
        => Range(res) = (IF query \in dict THEN {<<query, 0>>} ELSE {})

\* C3: every pair yielded by Trie.fuzzy (prefix off) and by either pass of
\* FBTrie.fuzzy names an inserted word with its true Levenshtein distance to the
\* query, which is at most k; so no word is reported with two distances.
C3_EmissionsSound ==
    (Plain \/ mode = "fb") =>
        /\ \A x \in DOMAIN res :
              /\ res[x][1] \in dict
              /\ res[x][2] = Lev(res[x][1], query)
              /\ res[x][2] <= k
        /\ \A x, y \in DOMAIN res : res[x][1] = res[y][1] => res[x][2] = res[y][2]

\* Both passes of one FBTrie.fuzzy call have yielded the same word at a
\* distance of at least 1.
C3_Witness ==
    /\ pc = "done" /\ mode = "fb"
    /\ \E x \in 1..(Len(res) - Len(out)), y \in (Len(res) - Len(out) + 1)..Len(res) :
          res[x][1] = res[y][1] /\ res[x][2] >= 1

\* C4: the pairs FBTrie.fuzzy yields, deduplicated by least distance, are the
\* pairs Trie.fuzzy yields for the same dictionary, query and k.
C4_FBEqualsTrie ==
    (pc = "done" /\ mode = "fb" /\ ~mutated)
        => DedupMin(res) = Range(Trie_fuzzy(trie, query, k, FALSE).out)

\* C5: every pair yielded with a budget below k is also yielded with budget k,
\* for Trie.fuzzy and for FBTrie.fuzzy.
C5_Monotone ==
    (pc = "done" /\ (Plain \/ mode = "fb") /\ ~mutated) =>
        \A kl \in 0..k :
            Range(IF mode = "trie" THEN Trie_fuzzy(trie, query, kl, FALSE).out
                  ELSE FBTrie_fuzzy(f, b, query, kl)) \subseteq Range(res)

\* An FBTrie.fuzzy call with k >= 1 has yielded more pairs than the non-empty
\* result of the same call with budget k - 1.
C5_Witness ==
    /\ pc = "done" /\ mode = "fb" /\ k >= 1 /\ ~mutated
    /\ FBTrie_fuzzy(f, b, query, k - 1) # <<>>
    /\ Range(FBTrie_fuzzy(f, b, query, k - 1)) # Range(res)

\* C6: inserting a present word again changes no trie; FBTrie.fuzzy yields the
\* same sequence and Trie.fuzzy the same set for every insertion order of the
\* same words; each pass yields a word at most once.
C6_DependsOnlyOnSet ==
    /\ \A w \in dict : /\ insert(trie, w) = trie
                       /\ insert(f, w) = f
                       /\ insert(b, Reverse(w)) = b
    /\ OncePerWord(out)
    /\ (pc = "done" /\ ~mutated) =>
          /\ mode = "fb" => res = FBTrie_fuzzy(CanonF, CanonB, query, k)
          /\ mode = "trie" => Range(res) = Range(Trie_fuzzy(CanonF, query, k, prefix).out)

\* An FBTrie.fuzzy call has yielded two different words from tries whose
\* children were inserted in another order than the fixed one.
C6_Witness ==
    /\ pc = "done" /\ mode = "fb" /\ ~mutated
    /\ f # CanonF
    /\ \E x, y \in DOMAIN res : res[x][1] # res[y][1]

\* C7: no step of a walk raises, and every table index it touches is a row in
\* 0..n+k and a column in 0..n, every query index j-1 has j in 1..n.
C7_NoOutOfRange ==
    /\ raised # "IndexError"
    /\ pc # "idle" =>
          /\ \A r \in acc.rows : 0 <= r /\ r <= Len(query) + k
          /\ \A j \in acc.cols : 0 <= j /\ j <= Len(query)
          /\ \A j \in acc.js : 1 <= j /\ j <= Len(query)

\* A walk has descended to depth n + k + 1, where the table has no row left,
\* at a node that has children.
C7_Witness ==
    /\ Walking /\ ~prefix /\ Len(stack) >= 2
    /\ Top(stack).at = "enter"
    /\ Top(stack).i = Len(query) + k + 1
    /\ Ctx.root[Top(stack).node] # <<>>

\* C8: whenever a frame at depth i reads row i-1 (for an edge of its loop, or for
\* the prefix-mode test), that row holds the Levenshtein distances between the
\* frame's path and every prefix of the query.
C8_RowInvariant ==
    (/\ Walking
     /\ \/ Top(stack).at = "loop" /\ Top(stack).rest # <<>>
        \/ Top(stack).at = "enter" /\ prefix /\ Top(stack).i >= Len(query) + 1)
    => \A j \in 0..Len(query) :
          tab[Top(stack).i - 1][j] = Lev(Top(stack).sofar, Prefix(Ctx.query, j))

\* The root frame is about to read row 0 for a further child after the subtree
\* of an earlier child has written rows 1 and 2 and a rejected terminator edge
\* at depth 3 (the only edge there) has written row 3.
C8_Witness ==
    /\ Walking /\ Len(stack) = 1
    /\ Top(stack).at = "loop" /\ Top(stack).rest # <<>>
    /\ 3 \in DOMAIN tab
    /\ tab[1][0] = 1 /\ tab[2][0] = 2 /\ tab[3][0] = 3
    /\ \A p \in DOMAIN Ctx.root : Len(p) = 2 => Range(Ctx.root[p]) \subseteq {Term}

\* A step of FBTrie.trie_fuzzy_ that recurses into a non-terminator child
FBDescent ==
    /\ mode = "fb" /\ Walking
    /\ Len(stack') = Len(stack) + 1
    /\ Head(Top(stack).rest) # Term

\* C9 as stated: a phase-1 frame descends only if the first-half column of the
\* new row is within the reduced budget, and every descent runs in phase 2.
C9_ColumnTestOnly ==
    [][FBDescent =>
          /\ Top(stack).phase = 1 =>
                tab'[Top(stack).i][Len(Ctx.subq)] <= Top(stack).subk
          /\ Top(stack').phase = 2]_vars

\* C9 amended: a phase-1 frame (budget subk = k1 or k2) descends in phase 2 with
\* budget k if the first-half column of the new row is <= subk, and otherwise
\* descends, staying in phase 1 with budget subk, if the row minimum is <= subk;
\* a phase-2 frame has budget k and descends in phase 2 if the row minimum is <= k.
C9_PhaseRule ==
    [][FBDescent =>
          LET top == Top(stack)
              new == Top(stack')
              row == tab'[top.i]
          IN /\ top.phase = 1 => top.subk = (IF pass = "f" THEN k1(k) ELSE k2(k))
             /\ top.phase = 2 => top.subk = k
             /\ IF top.phase = 1 /\ row[Len(Ctx.subq)] <= top.subk
                THEN new.phase = 2 /\ new.subk = k
                ELSE /\ Min(Range(row)) <= top.subk
                     /\ new.phase = top.phase /\ new.subk = top.subk]_vars

\* A phase-1 frame has just been entered over a non-terminator edge although
\* the first-half column of its parent's row exceeds the reduced budget.
C9_Witness ==
    /\ mode = "fb" /\ Walking /\ Len(stack) >= 2
    /\ Top(stack).at = "enter" /\ Top(stack).phase = 1
    /\ Top(stack).sofar # <<>> /\ Top(stack).sofar[Len(Top(stack).sofar)] # Term
    /\ tab[Top(stack).i - 1][Len(Ctx.subq)] > Top(stack).subk

\* C10: Trie.fuzzy in prefix mode computes no row beyond row n, and yields each
\* word of length >= n whose first n characters are within distance k of the
\* query, tagged with that distance, and each shorter word within distance k,
\* tagged with its own distance; each once.
C10_PrefixMode ==
    (mode = "trie" /\ prefix) =>
        /\ \A r \in acc.rows : r <= Len(query)
        /\ \A r \in DOMAIN tab : r > Len(query) => tab[r][0] = 0
        /\ OncePerWord(res)
        /\ (pc = "done" /\ ~mutated) =>
              Range(res) =
                  {<<w, Lev(Prefix(w, Len(query)), query)>> :
                      w \in {v \in dict : /\ Len(v) >= Len(query)
                                          /\ Lev(Prefix(v, Len(query)), query) <= k}}
                  \cup Within({v \in dict : Len(v) < Len(query)}, query, k)

\* A prefix-mode call on an unchanged dictionary has yielded, one Trie.traverse
\* step at a time, two words longer than the query with the distance of their
\* prefix, which is not the distance of the whole word.
C10_Witness ==
    /\ pc = "done" /\ mode = "trie" /\ prefix /\ ~mutated
    /\ \E x, y \in DOMAIN res :
          /\ x # y
          /\ Len(res[x][1]) > Len(query) /\ Len(res[y][1]) > Len(query)
          /\ res[x][2] # Lev(res[x][1], query)

====
